---- MODULE Spec2Model ----
(***************************************************************************)
(* Model of the doi-to-bibtex MCP server: the DOI normalizer, the BibTeX   *)
(* fetcher, the tool invocation router (handle_call_tool) and the HTTP     *)
(* message handler (handle_message).                                       *)
(*                                                                         *)
(* Strings are sequences of tokens.  Text the program inspects character   *)
(* by character (DOIs, prefixes, whitespace) is a sequence of one-         *)
(* character strings; the fixed fragments of its f-strings are single      *)
(* tokens.                                                                 *)
(***************************************************************************)
EXTENDS Integers, Sequences, FiniteSets, TLC

VARIABLES
    \* --- normalize_doi applied to one input string ---
    nPieces,    \* the fragments the input string is assembled from
    nInput,     \* the input string
    nOut,       \* normalize_doi(nInput)
    nOut2,      \* normalize_doi(normalize_doi(nInput))
    nPc,        \* "off" | "start" | "once" | "twice"
    \* --- the server: one entry per invocation ---
    pc,         \* "idle" | "received" | "awaiting" | "done" | "raised" | "escaped" | "cancelled"
    req,        \* the request as it arrived
    call,       \* the (name, arguments) handle_call_tool was entered with
    localDoi,   \* fetch_bibtex's local doi after normalize_doi
    client,     \* the httpx.AsyncClient the invocation opened
    wire,       \* per client: the request it has outstanding
    sent,       \* number of outbound GET requests issued by the invocation
    outcome,    \* what client.get produced for the invocation
    fetchRes,   \* what fetch_bibtex returned or raised
    toolRes,    \* what handle_call_tool returned or raised
    httpResp    \* the JSONResponse handle_message returned

nvars == <<nPieces, nInput, nOut, nOut2, nPc>>
svars == <<pc, req, call, localDoi, client, wire, sent, outcome, fetchRes, toolRes, httpResp>>
vars == <<nPieces, nInput, nOut, nOut2, nPc,
          pc, req, call, localDoi, client, wire, sent, outcome, fetchRes, toolRes, httpResp>>

(***************************************************************************)
(* Bounds                                                                  *)
(***************************************************************************)
MaxPieces == 3      \* fragments per input string of normalize_doi
NumInv == 2         \* simultaneous invocations

(***************************************************************************)
(* Python str operations                                                   *)
(***************************************************************************)
Whitespace == {" ", "\t"}

RECURSIVE lstrip(_)
lstrip(s) == IF s # <<>> /\ Head(s) \in Whitespace THEN lstrip(Tail(s)) ELSE s

RECURSIVE rstrip(_)
rstrip(s) ==
    IF s # <<>> /\ s[Len(s)] \in Whitespace THEN rstrip(SubSeq(s, 1, Len(s) - 1)) ELSE s

\* str.strip()
strip(s) == rstrip(lstrip(s))

\* str.startswith(p)
startswith(s, p) == Len(s) >= Len(p) /\ SubSeq(s, 1, Len(p)) = p

\* s[n:]
SliceFrom(s, n) == SubSeq(s, n + 1, Len(s))

LowerChar(c) ==
    CASE c = "D" -> "d"
      [] c = "O" -> "o"
      [] c = "I" -> "i"
      [] c = "A" -> "a"
      [] OTHER -> c

\* str.lower()
lower(s) == [k \in 1..Len(s) |-> LowerChar(s[k])]

(***************************************************************************)
(* normalize_doi                                                           *)
(***************************************************************************)
HttpsDoiOrg == <<"h","t","t","p","s",":","/","/","d","o","i",".","o","r","g","/">>
HttpDoiOrg == <<"h","t","t","p",":","/","/","d","o","i",".","o","r","g","/">>
HttpsDxDoiOrg == <<"h","t","t","p","s",":","/","/","d","x",".","d","o","i",".","o","r","g","/">>
HttpDxDoiOrg == <<"h","t","t","p",":","/","/","d","x",".","d","o","i",".","o","r","g","/">>
DoiLabel == <<"d","o","i",":">>

\* Mutant: the last branch an unconditional else.
RemoveUrlPrefixElse(doi) ==
    IF startswith(doi, HttpsDoiOrg) THEN SliceFrom(doi, 16)
    ELSE IF startswith(doi, HttpDoiOrg) THEN SliceFrom(doi, 15)
    ELSE IF startswith(doi, HttpsDxDoiOrg) THEN SliceFrom(doi, 19)
    ELSE SliceFrom(doi, 18)

\* "Remove URL prefix if present": the if/elif chain.
RemoveUrlPrefix(doi) ==
    IF startswith(doi, HttpsDoiOrg) THEN SliceFrom(doi, 16)
    ELSE IF startswith(doi, HttpDoiOrg) THEN SliceFrom(doi, 15)
    ELSE IF startswith(doi, HttpsDxDoiOrg) THEN SliceFrom(doi, 19)
    ELSE IF startswith(doi, HttpDxDoiOrg) THEN SliceFrom(doi, 18)
    ELSE doi

\* Mutant: the label is compared without lower().
RemoveDoiLabelCaseSensitive(doi) ==
    IF startswith(doi, DoiLabel) THEN SliceFrom(doi, 4) ELSE doi

\* "Remove 'doi:' prefix if present".
RemoveDoiLabel(doi) ==
    IF startswith(lower(doi), DoiLabel) THEN SliceFrom(doi, 4) ELSE doi

\* Mutant: the label check is an elif of the URL chain.
normalize_doi_elif(doi) ==
    LET t == strip(doi)
        u == RemoveUrlPrefix(t)
    IN  IF u # t THEN strip(u) ELSE strip(RemoveDoiLabel(u))

\* Mutant: the final strip() is missing.
normalize_doi_nostrip(doi) ==
    RemoveDoiLabel(RemoveUrlPrefix(strip(doi)))

normalize_doi(doi) ==
    strip(RemoveDoiLabel(RemoveUrlPrefix(strip(doi))))

(***************************************************************************)
(* Input strings of normalize_doi                                          *)
(***************************************************************************)
UrlPrefixes == {HttpsDoiOrg, HttpDoiOrg, HttpsDxDoiOrg, HttpDxDoiOrg}

\* every letter-case combination of "doi:"
DoiLabels == {<<d, o, i, ":">> : d \in {"d", "D"}, o \in {"o", "O"}, i \in {"i", "I"}}

RecognizedPrefixes == UrlPrefixes \cup DoiLabels

Space == <<" ">>
Ident == <<"1","0",".","1","/","A">>

WsPieces == {Space, <<"\t">>}
LabelPieces == {DoiLabel, <<"D","O","I",":">>}
Pieces == WsPieces \cup UrlPrefixes \cup LabelPieces \cup {Ident, <<"d">>}

PieceSeqs == UNION {[1..n -> Pieces] : n \in 0..MaxPieces}

RECURSIVE Flatten(_)
Flatten(ps) == IF ps = <<>> THEN <<>> ELSE Head(ps) \o Flatten(Tail(ps))

(***************************************************************************)
(* Python values, exceptions and the records the server handles            *)
(***************************************************************************)
Inv == 1..NumInv

Ident2 == <<"1","0",".","1","/","B">>
BibBody == <<"@article{x}">>
NoneName == "<None>"

\* the value under the key "doi": a str, or something that is no str
StrVal(chars) == [type |-> "str", chars |-> chars]
IntVal == [type |-> "int", chars |-> <<>>]
DoiValues == {StrVal(Ident), StrVal(Space \o <<"D","O","I",":">> \o Ident2), IntVal}

\* an argument mapping: None, or a dict with some of the keys "doi", "other"
NoneArgs == [kind |-> "None", keys |-> {}, doi |-> IntVal]
DictArgs(keys, v) == [kind |-> "dict", keys |-> keys, doi |-> v]
ArgumentMappings ==
    {NoneArgs, DictArgs({}, IntVal), DictArgs({"other"}, IntVal)}
        \cup {DictArgs({"doi"}, v) : v \in DoiValues}

\* raise_for_status and the exception classes the handlers meet, each with
\* its base class
BaseOf(cls) ==
    CASE cls = "Exception" -> "BaseException"
      [] cls = "CancelledError" -> "BaseException"
      [] cls = "ValueError" -> "Exception"
      [] cls = "JSONDecodeError" -> "ValueError"
      [] cls = "AttributeError" -> "Exception"
      [] cls = "NameError" -> "Exception"
      [] cls = "UnboundLocalError" -> "NameError"
      [] cls = "InvalidURL" -> "Exception"
      [] cls = "HTTPError" -> "Exception"
      [] cls = "HTTPStatusError" -> "HTTPError"
      [] cls = "RequestError" -> "HTTPError"
      [] cls = "TransportError" -> "RequestError"
      [] cls = "ConnectError" -> "TransportError"
      [] cls = "TimeoutException" -> "TransportError"
      [] cls = "ReadTimeout" -> "TimeoutException"
      [] OTHER -> ""

RECURSIVE issubclass(_, _)
issubclass(cls, base) ==
    IF cls = base THEN TRUE
    ELSE IF cls = "" THEN FALSE
    ELSE issubclass(BaseOf(cls), base)

Returned(text) == [kind |-> "return", cls |-> "", text |-> text]
Raised(cls, msg) == [kind |-> "raise", cls |-> cls, text |-> msg]
Nothing == [kind |-> "none", cls |-> "", text |-> <<>>]

\* what client.get produced: a response, or an exception raised at the await
Response(status, text) ==
    [kind |-> "response", status |-> status, text |-> text, cls |-> "", url |-> <<>>]
Failure(cls, msg) ==
    [kind |-> "exception", status |-> 0, text |-> msg, cls |-> cls, url |-> <<>>]
NoOutcome == [kind |-> "none", status |-> 0, text |-> <<>>, cls |-> "", url |-> <<>>]

Statuses == {200, 204, 301, 404, 406, 500}
Bodies == {BibBody, <<"N","o">>}
Outcomes ==
    {Response(st, b) : st \in Statuses, b \in Bodies}
        \cup {Failure("ConnectError", <<"All connection attempts failed">>),
              Failure("ReadTimeout", <<>>),
              Failure("InvalidURL", <<"Invalid non-printable ASCII character in URL">>)}
Cancellation == Failure("CancelledError", <<>>)

\* str(n) for n >= 0
RECURSIVE Digits(_)
Digits(n) ==
    LET d == <<"0","1","2","3","4","5","6","7","8","9">>[(n % 10) + 1]
    IN  IF n < 10 THEN <<d>> ELSE Digits(n \div 10) \o <<d>>

(***************************************************************************)
(* fetch_bibtex                                                            *)
(***************************************************************************)
\* Mutant: every invocation uses one module-level client.
SharedClient(i) == 0

\* "async with httpx.AsyncClient(...) as client": a client of the
\* invocation's own
NewClient(i) == i

\* Mutant: only 4xx and 5xx raise.
RaisesForStatusOnlyErrors(status) == status >= 400

\* response.raise_for_status(): raises unless the status is 2xx
RaisesForStatus(status) == ~(200 <= status /\ status <= 299)

\* the try body: what "await client.get" and raise_for_status leave
TryBody(oc) ==
    IF oc.kind = "exception" THEN Raised(oc.cls, oc.text)
    ELSE IF RaisesForStatus(oc.status) THEN Raised("HTTPStatusError", <<"status">>)
    ELSE Returned(oc.text)

\* except httpx.HTTPStatusError as e
OnHTTPStatusError(doi, oc) ==
    IF oc.status = 404
    THEN Raised("ValueError", <<"DOI not found: ">> \o doi)
    ELSE IF oc.status = 406
    THEN Raised("ValueError", <<"BibTeX format not available for DOI: ">> \o doi)
    ELSE Raised("ValueError",
                <<"HTTP error ">> \o Digits(oc.status) \o <<": ">> \o oc.text)

\* Mutant: a bare "except:".
CaughtByBareExcept(cls) == TRUE

\* "except Exception as e"
CaughtByExceptException(cls) == issubclass(cls, "Exception")

\* fetch_bibtex from the await on: doi is the normalized DOI, oc what
\* client.get produced
fetch_bibtex_resume(doi, oc) ==
    LET r == TryBody(oc)
    IN  IF r.kind = "return" THEN r
        ELSE IF issubclass(r.cls, "HTTPStatusError") THEN OnHTTPStatusError(doi, oc)
        ELSE IF CaughtByExceptException(r.cls)
        THEN Raised("ValueError", <<"Failed to fetch BibTeX: ">> \o r.text)
        ELSE r

(***************************************************************************)
(* handle_call_tool                                                        *)
(***************************************************************************)
TextContent(text) == [type |-> "text", text |-> text]

ToolReturned(content) == [kind |-> "return", cls |-> "", msg |-> <<>>, content |-> content]
ToolRaised(cls, msg) == [kind |-> "raise", cls |-> cls, msg |-> msg, content |-> <<>>]
ToolPending == [kind |-> "pending", cls |-> "", msg |-> <<>>, content |-> <<>>]
ToolNothing == [kind |-> "none", cls |-> "", msg |-> <<>>, content |-> <<>>]

FormatName(name) == IF name = NoneName THEN "None" ELSE name

\* "not arguments or 'doi' not in arguments"
MissingDoi(arguments) ==
    arguments.kind = "None" \/ arguments.keys = {} \/ "doi" \notin arguments.keys

\* Mutant: the failure is re-raised instead of being wrapped.
WrapFetchResultReraise(fr) ==
    IF fr.kind = "return" THEN ToolReturned(<<TextContent(fr.text)>>)
    ELSE ToolRaised(fr.cls, fr.text)

\* the try/except around "await fetch_bibtex(doi)"
WrapFetchResult(fr) ==
    IF fr.kind = "return" THEN ToolReturned(<<TextContent(fr.text)>>)
    ELSE IF CaughtByExceptException(fr.cls)
    THEN ToolReturned(<<TextContent(<<"Error: ">> \o fr.text)>>)
    ELSE ToolRaised(fr.cls, fr.text)

\* Mutant: the two checks sit inside the try block.
handle_call_tool_start_inband(name, arguments) ==
    IF name # "doi_to_bibtex"
    THEN WrapFetchResult(Raised("ValueError", <<"Unknown tool: ", FormatName(name)>>))
    ELSE IF MissingDoi(arguments)
    THEN WrapFetchResult(Raised("ValueError", <<"Missing required argument: doi">>))
    ELSE IF arguments.doi.type # "str"
    THEN WrapFetchResult(Raised("AttributeError",
                                <<"'int' object has no attribute 'strip'">>))
    ELSE ToolPending

\* handle_call_tool up to the await inside fetch_bibtex: the two checks, and
\* normalize_doi's doi.strip() on a value that is no str
handle_call_tool_start(name, arguments) ==
    IF name # "doi_to_bibtex"
    THEN ToolRaised("ValueError", <<"Unknown tool: ", FormatName(name)>>)
    ELSE IF MissingDoi(arguments)
    THEN ToolRaised("ValueError", <<"Missing required argument: doi">>)
    ELSE IF arguments.doi.type # "str"
    THEN WrapFetchResult(Raised("AttributeError",
                                <<"'int' object has no attribute 'strip'">>))
    ELSE ToolPending

(***************************************************************************)
(* check_auth and handle_message                                           *)
(***************************************************************************)
Bearer == <<"B","e","a","r","e","r"," ">>
Secret == <<"s","3">>

check_auth(authToken, authHeader) ==
    IF authToken = <<>> THEN TRUE
    ELSE IF startswith(authHeader, Bearer) THEN SliceFrom(authHeader, 7) = authToken
    ELSE FALSE

NoHttp ==
    [kind |-> "none", status |-> 0, id |-> "", code |-> 0, message |-> <<>>,
     content |-> <<>>, cls |-> ""]
Unauthorized == [NoHttp EXCEPT !.kind = "unauthorized", !.status = 401]
ToolsListed(id) == [NoHttp EXCEPT !.kind = "tools", !.status = 200, !.id = id]
ContentResult(id, content) ==
    [NoHttp EXCEPT !.kind = "content", !.status = 200, !.id = id, !.content = content]
ErrorResult(id, code, status, message) ==
    [NoHttp EXCEPT !.kind = "error", !.status = status, !.id = id, !.code = code,
                   !.message = message]
Escapes(cls) == [NoHttp EXCEPT !.kind = "exception", !.cls = cls]
HttpPending == [NoHttp EXCEPT !.kind = "pending"]

\* data.get("id"): the id, or None
IdOf(r) == IF r.hasId THEN "7" ELSE "None"

\* params.get("name") and params.get("arguments", {}) of the request
NameOf(r) == IF r.params = "absent" THEN NoneName ELSE r.name
ArgumentsOf(r) == IF r.params = "absent" \/ r.argsAbsent THEN DictArgs({}, IntVal) ELSE r.arguments

\* the "except Exception as e" of handle_message: it reads data.get("id", None)
OnHandlerException(r, cls, msg) ==
    IF ~issubclass(cls, "Exception") THEN Escapes(cls)
    ELSE IF r.body = "invalid" THEN Escapes("UnboundLocalError")
    ELSE IF r.body # "object" THEN Escapes("AttributeError")
    ELSE ErrorResult(IdOf(r), -32603, 500, msg)

\* how handle_message answers what handle_call_tool returned or raised
AnswerToolResult(r, tr) ==
    IF tr.kind = "return" THEN ContentResult(IdOf(r), tr.content)
    ELSE OnHandlerException(r, tr.cls, tr.msg)

\* handle_message up to the await inside fetch_bibtex
handle_message_start(r) ==
    IF ~check_auth(r.authToken, r.authHeader) THEN Unauthorized
    ELSE IF r.body = "invalid"
    THEN OnHandlerException(r, "JSONDecodeError", <<"Expecting value">>)
    ELSE IF r.body # "object"
    THEN OnHandlerException(r, "AttributeError", <<"object has no attribute 'get'">>)
    ELSE IF r.method = "tools/list" THEN ToolsListed(IdOf(r))
    ELSE IF r.method = "tools/call"
    THEN IF r.params = "null"
         THEN OnHandlerException(r, "AttributeError",
                                 <<"'NoneType' object has no attribute 'get'">>)
         ELSE LET tr == handle_call_tool_start(NameOf(r), ArgumentsOf(r))
              IN  IF tr.kind = "pending" THEN HttpPending ELSE AnswerToolResult(r, tr)
    ELSE ErrorResult(IdOf(r), -32601, 200,
                     <<"Method not found: ", IF r.method = "absent" THEN "" ELSE r.method>>)

(***************************************************************************)
(* Requests                                                                *)
(***************************************************************************)
NoRequest ==
    [path |-> "none", authToken |-> <<>>, authHeader |-> <<>>, body |-> "object",
     hasId |-> FALSE, method |-> "absent", params |-> "absent", name |-> NoneName,
     argsAbsent |-> TRUE, arguments |-> NoneArgs]

\* a direct call of handle_call_tool (the stdio server)
StdioCalls ==
    {[NoRequest EXCEPT !.path = "stdio", !.method = "tools/call", !.params = "object",
                       !.name = n, !.argsAbsent = FALSE, !.arguments = a] :
        n \in {"doi_to_bibtex", "nonexistent_tool"}, a \in ArgumentMappings}

AuthSettings ==
    {<<<<>>, <<>>>>, <<Secret, Bearer \o Secret>>, <<Secret, <<>>>>,
     <<Secret, Bearer \o <<"x">>>>, <<Secret, <<"B","a","s","i","c"," ">> \o Secret>>}

\* the bodies of POST /message
MessageBodies ==
    {[NoRequest EXCEPT !.path = "http", !.body = b] :
        b \in {"invalid", "null", "array", "string"}}
    \cup {[NoRequest EXCEPT !.path = "http", !.hasId = h, !.method = m] :
        h \in BOOLEAN, m \in {"absent", "tools/list", "resources/list"}}
    \cup {[NoRequest EXCEPT !.path = "http", !.hasId = h, !.method = "tools/call",
                            !.params = p] :
        h \in BOOLEAN, p \in {"absent", "null"}}
    \cup {[NoRequest EXCEPT !.path = "http", !.hasId = h, !.method = "tools/call",
                            !.params = "object", !.name = n] :
        h \in BOOLEAN, n \in {NoneName, "doi_to_bibtex", "nonexistent_tool"}}
    \cup {[NoRequest EXCEPT !.path = "http", !.hasId = h, !.method = "tools/call",
                            !.params = "object", !.name = n, !.argsAbsent = FALSE,
                            !.arguments = a] :
        h \in BOOLEAN, n \in {NoneName, "doi_to_bibtex", "nonexistent_tool"},
        a \in ArgumentMappings}

HttpMessages ==
    {[b EXCEPT !.authToken = au[1], !.authHeader = au[2]] :
        b \in MessageBodies, au \in AuthSettings}

Requests == StdioCalls \cup HttpMessages

\* the requests of the concurrent runs: well-formed tools/call invocations
ConcurrentRequests ==
    {r \in Requests :
        /\ r.authToken = <<>>
        /\ (r.path = "stdio" \/ (r.hasId /\ r.arguments.doi = StrVal(Ident)))
        /\ r.name = "doi_to_bibtex"
        /\ ~r.argsAbsent
        /\ r.arguments.kind = "dict"
        /\ r.arguments.keys = {"doi"}
        /\ r.arguments.doi.type = "str"}

Fresh ==
    /\ call = [i \in Inv |-> [entered |-> FALSE, name |-> NoneName, arguments |-> NoneArgs]]
    /\ localDoi = [i \in Inv |-> <<>>]
    /\ client = [i \in Inv |-> 0]
    /\ wire = [c \in 0..NumInv |-> <<>>]
    /\ sent = [i \in Inv |-> 0]
    /\ outcome = [i \in Inv |-> NoOutcome]
    /\ fetchRes = [i \in Inv |-> Nothing]
    /\ toolRes = [i \in Inv |-> ToolNothing]
    /\ httpResp = [i \in Inv |-> NoHttp]

Idle ==
    /\ pc = [i \in Inv |-> "idle"]
    /\ req = [i \in Inv |-> NoRequest]
    /\ Fresh

NormOff ==
    /\ nPieces = <<>>
    /\ nInput = <<>>
    /\ nOut = <<>>
    /\ nOut2 = <<>>
    /\ nPc = "off"

InitNorm ==
    /\ nPieces \in PieceSeqs
    /\ nInput = Flatten(nPieces)
    /\ nOut = <<>>
    /\ nOut2 = <<>>
    /\ nPc = "start"
    /\ Idle

\* normalize_doi(doi)
Normalize ==
    /\ nPc = "start"
    /\ nOut' = normalize_doi(nInput)
    /\ nPc' = "once"
    /\ UNCHANGED <<nPieces, nInput, nOut2>>
    /\ UNCHANGED svars

\* normalize_doi applied to its own output
Renormalize ==
    /\ nPc = "once"
    /\ nOut2' = normalize_doi(nOut)
    /\ nPc' = "twice"
    /\ UNCHANGED <<nPieces, nInput, nOut>>
    /\ UNCHANGED svars

NextNorm == Normalize \/ Renormalize

SpecNorm == InitNorm /\ [][NextNorm]_vars

(***************************************************************************)
(* The server's steps                                                      *)
(***************************************************************************)
\* one request arrives and is served alone
Init ==
    /\ NormOff
    /\ pc = [i \in Inv |-> IF i = 1 THEN "received" ELSE "idle"]
    /\ \E r \in Requests : req = [i \in Inv |-> IF i = 1 THEN r ELSE NoRequest]
    /\ Fresh

\* every invocation holds a well-formed tools/call request
InitConc ==
    /\ NormOff
    /\ pc = [i \in Inv |-> "received"]
    /\ req \in [Inv -> ConcurrentRequests]
    /\ Fresh

\* handle_call_tool(name, arguments) up to its first suspension: the checks,
\* then fetch_bibtex's normalize_doi, its client and its GET request
StartCall(i, name, arguments) ==
    LET tr == handle_call_tool_start(name, arguments)
        reachesFetch == name = "doi_to_bibtex" /\ ~MissingDoi(arguments)
        doi == normalize_doi(arguments.doi.chars)
    IN  /\ call' = [call EXCEPT ![i] =
                       [entered |-> TRUE, name |-> name, arguments |-> arguments]]
        /\ toolRes' = [toolRes EXCEPT ![i] = tr]
        /\ fetchRes' = [fetchRes EXCEPT ![i] =
                           IF reachesFetch /\ tr.kind # "pending"
                           THEN Raised("AttributeError",
                                       <<"'int' object has no attribute 'strip'">>)
                           ELSE Nothing]
        /\ IF tr.kind = "pending"
           THEN /\ localDoi' = [localDoi EXCEPT ![i] = doi]
                /\ client' = [client EXCEPT ![i] = NewClient(i)]
                /\ wire' = [wire EXCEPT ![NewClient(i)] = HttpsDoiOrg \o doi]
                /\ sent' = [sent EXCEPT ![i] = @ + 1]
           ELSE UNCHANGED <<localDoi, client, wire, sent>>

\* the stdio server calls handle_call_tool
CallTool(i) ==
    /\ pc[i] = "received"
    /\ req[i].path = "stdio"
    /\ StartCall(i, req[i].name, req[i].arguments)
    /\ pc' = [pc EXCEPT ![i] =
                 LET tr == handle_call_tool_start(req[i].name, req[i].arguments)
                 IN  IF tr.kind = "pending" THEN "awaiting"
                     ELSE IF tr.kind = "return" THEN "done"
                     ELSE "raised"]
    /\ UNCHANGED <<req, outcome, httpResp>>
    /\ UNCHANGED nvars

\* POST /message: handle_message up to its first suspension
HandleMessage(i) ==
    /\ pc[i] = "received"
    /\ req[i].path = "http"
    /\ LET r == req[i]
           h == handle_message_start(r)
           entersCall ==
               /\ check_auth(r.authToken, r.authHeader)
               /\ r.body = "object"
               /\ r.method = "tools/call"
               /\ r.params # "null"
       IN  /\ IF entersCall
              THEN StartCall(i, NameOf(r), ArgumentsOf(r))
              ELSE UNCHANGED <<call, toolRes, fetchRes, localDoi, client, wire, sent>>
           /\ httpResp' = [httpResp EXCEPT ![i] = h]
           /\ pc' = [pc EXCEPT ![i] =
                        IF h.kind = "pending" THEN "awaiting"
                        ELSE IF h.kind = "exception" THEN "escaped"
                        ELSE "done"]
    /\ UNCHANGED <<req, outcome>>
    /\ UNCHANGED nvars

\* the await on client.get ends with o: fetch_bibtex, handle_call_tool and
\* (for POST /message) handle_message run to their end
Resume(i, o) ==
    LET oc == [o EXCEPT !.url = wire[client[i]]]
        fr == fetch_bibtex_resume(localDoi[i], oc)
        tr == WrapFetchResult(fr)
        h == AnswerToolResult(req[i], tr)
        cancelled == tr.kind = "raise" /\ tr.cls = "CancelledError"
    IN  /\ outcome' = [outcome EXCEPT ![i] = oc]
        /\ fetchRes' = [fetchRes EXCEPT ![i] = fr]
        /\ toolRes' = [toolRes EXCEPT ![i] = tr]
        /\ wire' = [wire EXCEPT ![client[i]] = <<>>]
        /\ IF req[i].path = "http"
           THEN /\ httpResp' = [httpResp EXCEPT ![i] = IF cancelled THEN NoHttp ELSE h]
                /\ pc' = [pc EXCEPT ![i] =
                             IF cancelled THEN "cancelled"
                             ELSE IF h.kind = "exception" THEN "escaped"
                             ELSE "done"]
           ELSE /\ UNCHANGED httpResp
                /\ pc' = [pc EXCEPT ![i] =
                             IF cancelled THEN "cancelled"
                             ELSE IF tr.kind = "raise" THEN "raised"
                             ELSE "done"]
        /\ UNCHANGED <<req, call, localDoi, client, sent>>
        /\ UNCHANGED nvars

\* the resolver answers, or the transport fails
FetchCompletes(i) ==
    /\ pc[i] = "awaiting"
    /\ wire[client[i]] # <<>>
    /\ \E o \in Outcomes : Resume(i, o)

\* the transport cancels the invocation while it waits for the resolver
Cancel(i) ==
    /\ pc[i] = "awaiting"
    /\ Resume(i, Cancellation)

Next ==
    \/ \E i \in Inv : CallTool(i)
    \/ \E i \in Inv : HandleMessage(i)
    \/ \E i \in Inv : FetchCompletes(i)
    \/ \E i \in Inv : Cancel(i)

Spec == Init /\ [][Next]_vars

SpecConc == InitConc /\ [][Next]_vars

(***************************************************************************)
(* Properties of the server                                                *)
(***************************************************************************)
HasDoiKey(arguments) == arguments.kind = "dict" /\ "doi" \in arguments.keys

Authorized(r) ==
    \/ r.authToken = <<>>
    \/ r.authHeader = Bearer \o r.authToken

\* C1: for every tools/call whose name is doi_to_bibtex and whose arguments
\* contain the key doi, a failure raised while handling the doi value (404,
\* 406, other non-2xx status, transport failure, any other exception) is
\* returned by handle_call_tool as exactly one text item "Error: " + message,
\* and the HTTP response carries result.content and no error object.
C1_FailuresReturnedInBand ==
    \A i \in Inv :
        ( /\ call[i].entered
          /\ call[i].name = "doi_to_bibtex"
          /\ HasDoiKey(call[i].arguments)
          /\ fetchRes[i].kind = "raise"
          /\ outcome[i].cls # "CancelledError" ) =>
            /\ toolRes[i].kind = "return"
            /\ Len(toolRes[i].content) = 1
            /\ toolRes[i].content[1].type = "text"
            /\ toolRes[i].content[1].text = <<"Error: ">> \o fetchRes[i].text
            /\ pc[i] = "done"
            /\ req[i].path = "http" =>
                   /\ httpResp[i].kind = "content"
                   /\ httpResp[i].status = 200
                   /\ httpResp[i].code = 0
                   /\ httpResp[i].content = toolRes[i].content

C1_Witness ==
    /\ pc[1] = "done"
    /\ req[1].path = "http"
    /\ outcome[1].kind = "response"
    /\ outcome[1].status = 404
    /\ httpResp[1].kind = "content"
    /\ httpResp[1].content = <<TextContent(<<"Error: ", "DOI not found: ">> \o Ident)>>

FailureKinds ==
    {"DOI not found: ", "BibTeX format not available for DOI: ", "HTTP error ",
     "Failed to fetch BibTeX: "}

\* C2: the result of fetch_bibtex is determined by the outcome of its
\* request: 2xx yields the body unchanged; 404 a "DOI not found" error with
\* the normalized DOI; 406 a "BibTeX format not available" error; any other
\* non-2xx status an "HTTP error" with the status code and the raw body; a
\* transport exception a "Failed to fetch BibTeX" error with the cause's
\* description; exactly one of the five for each outcome.
C2_FetchResultByOutcome ==
    \A i \in Inv :
        (outcome[i].kind # "none" /\ outcome[i].cls # "CancelledError") =>
            LET oc == outcome[i]
                fr == fetchRes[i]
                ok == oc.kind = "response" /\ oc.status \in 200..299
            IN  /\ fr.kind \in {"return", "raise"}
                /\ fr.kind = "return" <=> ok
                /\ ok => fr.text = oc.text
                /\ fr.kind = "raise" =>
                       /\ fr.cls = "ValueError"
                       /\ fr.text[1] \in FailureKinds
                       /\ fr.text[1] = "DOI not found: " <=>
                              (oc.kind = "response" /\ oc.status = 404)
                       /\ fr.text[1] = "BibTeX format not available for DOI: " <=>
                              (oc.kind = "response" /\ oc.status = 406)
                       /\ fr.text[1] = "Failed to fetch BibTeX: " <=>
                              oc.kind = "exception"
                /\ (oc.kind = "response" /\ oc.status = 404) =>
                       /\ fr.text = <<"DOI not found: ">> \o localDoi[i]
                       /\ localDoi[i] \in {Ident, Ident2}
                /\ (oc.kind = "response" /\ oc.status = 301) =>
                       fr.text = <<"HTTP error ", "3", "0", "1", ": ">> \o oc.text
                /\ (oc.kind = "response" /\ oc.status = 500) =>
                       fr.text = <<"HTTP error ", "5", "0", "0", ": ">> \o oc.text
                /\ oc.kind = "exception" =>
                       fr.text = <<"Failed to fetch BibTeX: ">> \o oc.text

C2_Witness ==
    /\ outcome[1].kind = "response"
    /\ outcome[1].status = 406
    /\ call[1].arguments.doi = StrVal(Space \o <<"D","O","I",":">> \o Ident2)
    /\ fetchRes[1] =
           Raised("ValueError", <<"BibTeX format not available for DOI: ">> \o Ident2)

NoFetchAttempted(i) ==
    /\ fetchRes[i].kind = "none"
    /\ localDoi[i] = <<>>
    /\ sent[i] = 0
    /\ outcome[i].kind = "none"
    /\ \A c \in DOMAIN wire : wire[c] = <<>>

\* C3: a tools/call whose name is not doi_to_bibtex fails with "Unknown
\* tool" whatever its arguments; one whose name is doi_to_bibtex but whose
\* argument mapping is absent, empty or lacks the key doi fails with "Missing
\* required argument"; both failures are raised, not returned as "Error:"
\* text, and neither normalization nor a fetch is attempted.
C3_MalformedCallsRaise ==
    \A i \in Inv :
        call[i].entered =>
            /\ call[i].name # "doi_to_bibtex" =>
                   /\ toolRes[i].kind = "raise"
                   /\ toolRes[i].msg[1] = "Unknown tool: "
                   /\ toolRes[i].content = <<>>
                   /\ NoFetchAttempted(i)
                   /\ pc[i] \notin {"awaiting", "cancelled"}
            /\ (call[i].name = "doi_to_bibtex" /\ ~HasDoiKey(call[i].arguments)) =>
                   /\ toolRes[i].kind = "raise"
                   /\ toolRes[i].msg = <<"Missing required argument: doi">>
                   /\ toolRes[i].content = <<>>
                   /\ NoFetchAttempted(i)
                   /\ pc[i] \notin {"awaiting", "cancelled"}

C3_Witness ==
    /\ pc[1] = "raised"
    /\ call[1].name = "doi_to_bibtex"
    /\ call[1].arguments = DictArgs({"other"}, IntVal)
    /\ toolRes[1] = ToolRaised("ValueError", <<"Missing required argument: doi">>)
    /\ sent[1] = 0

\* the request makes handle_message raise inside its try block
RaisesWhileHandled(r) ==
    \/ r.body # "object"
    \/ /\ r.method = "tools/call"
       /\ \/ r.params = "null"
          \/ r.params = "absent"
          \/ r.name # "doi_to_bibtex"
          \/ r.argsAbsent
          \/ ~HasDoiKey(r.arguments)

\* C4: for every authorized POST /message, any exception raised during
\* message handling (unparseable JSON, a body that is no JSON object, null
\* params, an unknown tool name, a missing doi argument) is answered with a
\* JSON-RPC error object with code -32603; none escapes handle_message.
C4_EveryExceptionAnswered ==
    \A i \in Inv :
        ( /\ req[i].path = "http"
          /\ Authorized(req[i])
          /\ pc[i] # "received"
          /\ RaisesWhileHandled(req[i]) ) =>
            /\ pc[i] = "done"
            /\ httpResp[i].kind = "error"
            /\ httpResp[i].code = -32603

\* the invocation's own request URL
OwnUrl(i) == HttpsDoiOrg \o normalize_doi(req[i].arguments.doi.chars)

\* C8: concurrent tools/call invocations are independent: the result of each
\* depends only on its own doi argument and the outcome of its own request;
\* each has a client of its own, which carries its request and no other's;
\* and none waits for another's fetch before it can complete.
C8_InvocationsIndependent ==
    \A i \in Inv :
        /\ outcome[i].kind # "none" =>
               /\ outcome[i].url = OwnUrl(i)
               /\ fetchRes[i] = fetch_bibtex_resume(normalize_doi(req[i].arguments.doi.chars),
                                                    outcome[i])
               /\ toolRes[i] = WrapFetchResult(fetchRes[i])
        /\ pc[i] = "awaiting" =>
               /\ wire[client[i]] = OwnUrl(i)
               /\ \A j \in Inv \ {i} : pc[j] = "awaiting" => client[j] # client[i]
               /\ ENABLED FetchCompletes(i)
        /\ sent[i] <= 1

C8_Witness ==
    /\ pc[1] = "awaiting"
    /\ pc[2] = "done"
    /\ req[1].arguments.doi # req[2].arguments.doi
    /\ outcome[2].url = OwnUrl(2)
    /\ wire[client[1]] = OwnUrl(1)

CancelDelivered(i) == outcome[i].kind = "exception" /\ outcome[i].cls = "CancelledError"

\* C10: a cancellation delivered while the fetch is in flight propagates out
\* of fetch_bibtex and handle_call_tool; it is not turned into a "Failed to
\* fetch BibTeX" error nor into an "Error:" text result, and the
\* invocation produces no result afterwards.
C10_CancelledState ==
    \A i \in Inv :
        CancelDelivered(i) =>
            /\ pc[i] = "cancelled"
            /\ fetchRes[i] = Raised("CancelledError", <<>>)
            /\ toolRes[i] = ToolRaised("CancelledError", <<>>)
            /\ httpResp[i].kind \in {"none", "pending"}
            /\ wire[client[i]] = <<>>

C10_CancelledStep ==
    \A i \in Inv :
        CancelDelivered(i) =>
            /\ pc'[i] = pc[i]
            /\ fetchRes'[i] = fetchRes[i]
            /\ toolRes'[i] = toolRes[i]
            /\ httpResp'[i] = httpResp[i]

C10_CancellationPropagates == []C10_CancelledState /\ [][C10_CancelledStep]_vars

C10_Witness ==
    /\ pc[1] = "cancelled"
    /\ CancelDelivered(1)
    /\ toolRes[1].kind = "raise"
    /\ pc[2] = "done"

(***************************************************************************)
(* Properties of normalize_doi (checked under SpecNorm)                    *)
(***************************************************************************)
NormDone == nPc \in {"once", "twice"}

HasUrlPrefix(s) == \E u \in UrlPrefixes : startswith(s, u)
HasDoiLabel(s) == \E l \in DoiLabels : startswith(s, l)
HasRecognizedPrefix(s) == HasUrlPrefix(s) \/ HasDoiLabel(s)

Trimmed(s) == s = <<>> \/ (s[1] \notin Whitespace /\ s[Len(s)] \notin Whitespace)

\* a canonical DOI: no surrounding whitespace, no recognized prefix
Canonical(s) == Trimmed(s) /\ ~HasRecognizedPrefix(s)

\* a bare identifier: once trimmed it starts with no recognized prefix
Bare(b) == ~HasRecognizedPrefix(strip(b))

RECURSIVE DropWsPieces(_)
DropWsPieces(ps) ==
    IF ps # <<>> /\ Head(ps) \in WsPieces THEN DropWsPieces(Tail(ps)) ELSE ps

DropUrlPiece(ps) == IF ps # <<>> /\ Head(ps) \in UrlPrefixes THEN Tail(ps) ELSE ps
DropLabelPiece(ps) == IF ps # <<>> /\ Head(ps) \in LabelPieces THEN Tail(ps) ELSE ps

\* The input is whitespace, at most one URL prefix, directly followed by at
\* most one doi: label, and then a bare identifier.
SingleLayer(ps) == Bare(Flatten(DropLabelPiece(DropUrlPiece(DropWsPieces(ps)))))

Pads == {<<>>, Space, <<"\t">>}

\* C5: for every bare identifier b, every recognized prefix p (the four URL
\* forms and doi: in every letter case) and optional surrounding whitespace,
\* normalize_doi(p + b) equals normalize_doi(b).
C5_PrefixInvariance ==
    (NormDone /\ Bare(nInput)) =>
        \A p \in RecognizedPrefixes : \A w1 \in Pads : \A w2 \in Pads :
            normalize_doi(w1 \o p \o nInput \o w2) = nOut

C5_Witness ==
    /\ nPc = "once"
    /\ nPieces = <<Ident, Space>>
    /\ nOut = Ident
    /\ normalize_doi(Space \o <<"D","o","I",":">> \o nInput) = Ident

\* C6 as stated: normalize_doi(normalize_doi(s)) = normalize_doi(s) for every
\* input string s.
C6_IdempotentOnAllInputs == nPc = "twice" => nOut2 = nOut

\* C6 amended: normalize_doi is idempotent on every input made of optional
\* whitespace, at most one URL prefix, directly followed by at most one doi:
\* label, and a bare identifier; an already-canonical DOI is returned
\* unchanged and the empty string is mapped to the empty string.
C6_IdempotentOnSingleLayer ==
    /\ (nPc = "twice" /\ SingleLayer(nPieces)) => nOut2 = nOut
    /\ (NormDone /\ Canonical(nInput)) => nOut = nInput
    /\ (NormDone /\ nInput = <<>>) => nOut = <<>>

C6_Witness ==
    /\ nPc = "twice"
    /\ nPieces = <<HttpDxDoiOrg, <<"D","O","I",":">>, Ident>>
    /\ nOut = Ident
    /\ nOut2 = Ident

\* C7 as stated: for every input string the output of normalize_doi begins
\* with none of the four URL prefixes, with no doi: label in any letter case,
\* and has no leading or trailing whitespace.
C7_OutputNeverPrefixed ==
    NormDone => (~HasRecognizedPrefix(nOut) /\ Trimmed(nOut))

\* C7 amended: for every input string the output of normalize_doi has no
\* leading or trailing whitespace; for every input made of optional
\* whitespace, at most one URL prefix, directly followed by at most one doi:
\* label, and a bare identifier, the output begins with no URL prefix and no
\* doi: label.
C7_OutputTrimmedAndSingleLayerUnprefixed ==
    /\ NormDone => Trimmed(nOut)
    /\ (NormDone /\ SingleLayer(nPieces)) => ~HasRecognizedPrefix(nOut)

C7_Witness ==
    /\ nPc = "once"
    /\ nPieces = <<Space, HttpsDoiOrg, Ident>>
    /\ nOut = Ident

\* C9 as stated: the doi: label is stripped only when none of the four URL
\* prefixes matched the trimmed input, so that after a URL prefix the rest is
\* returned (trimmed) with its doi: label kept.
C9_LabelOnlyWithoutUrlPrefix ==
    NormDone =>
        \A u \in UrlPrefixes :
            startswith(strip(nInput), u) =>
                nOut = strip(SliceFrom(strip(nInput), Len(u)))

\* C9 amended: the doi: label (case-insensitive) is checked and stripped
\* after the URL-prefix step whether or not a URL prefix matched: exactly the
\* URL prefix the trimmed input starts with (if any) and then the doi: label
\* the rest starts with (if any) are removed, nothing more, so
\* https://doi.org/doi:10.1/A yields 10.1/A and doi:doi:10.1/A keeps one label.
C9_LabelCheckedAfterUrlPrefix ==
    NormDone =>
        LET t == strip(nInput)
            r == IF HasUrlPrefix(t)
                 THEN SliceFrom(t, Len(CHOOSE u \in UrlPrefixes : startswith(t, u)))
                 ELSE t
        IN  /\ nOut = IF HasDoiLabel(r) THEN strip(SliceFrom(r, 4)) ELSE strip(r)
            /\ nPieces = <<HttpsDoiOrg, DoiLabel, Ident>> => nOut = Ident
            /\ nPieces = <<DoiLabel, DoiLabel, Ident>> => nOut = DoiLabel \o Ident

C9_Witness ==
    /\ nPc = "once"
    /\ nPieces = <<HttpsDoiOrg, DoiLabel, Ident>>
    /\ nOut = Ident

====
